---- MODULE Spec2Model ----
(***************************************************************************)
(* Identity, callback dispatch and syscall abstraction of the kernel:      *)
(* kernel/src/callback.rs (AppId, Callback, Callback::schedule) and        *)
(* kernel/src/syscall.rs (Syscall, SyscallInterface).  The process table   *)
(* and the per-process task queue live in process.rs / sched.rs, which are *)
(* consumed through schedule(FunctionCall) -> bool and the flash           *)
(* accessors.                                                              *)
(***************************************************************************)
EXTENDS Integers, Sequences, FiniteSets, TLC

\* ------------------------------------------------------------------ bounds
MaxProcs == 2      \* largest process-table length explored
MaxCalls == 3      \* Callback::schedule calls per behaviour
QueueCap == 2      \* capacity of a process's task queue
MaxSyscallNo == 6  \* largest syscall number a trapped process presents

\* callback.rs:16
KERNEL_APPID_BOUNDARY == 100

Datas  == {7}                      \* appdata given at subscription
Ptrs   == {64}                     \* NonNull<*mut ()>: never address 0
Funcs  == {"F"}                    \* fn(usize, usize, usize, usize) values
\* indices an AppId may carry: every slot of the largest table (out of bounds
\* in a shorter one) and the first kernel pseudo-identity
Idxs   == (0..(MaxProcs - 1)) \cup {KERNEL_APPID_BOUNDARY}
\* indices given to Callback::kernel_new: a kernel one and a process one
KIdxs  == {0, KERNEL_APPID_BOUNDARY}

\* Option<T>
None    == <<>>
Some(x) == <<x>>
Unwrap(o) == o[1]

\* ------------------------------------------------------------------ AppId
AppId_new(i) == [idx |-> i]

AppId_kernel_new(i) == [idx |-> i]

\* mutant: the boundary itself is taken for a process index
is_kernel_gt(self) == self.idx > KERNEL_APPID_BOUNDARY

is_kernel(self) == self.idx >= KERNEL_APPID_BOUNDARY

\* mutant: the static variant disagrees at the boundary
is_kernel_idx_gt(i) == i > KERNEL_APPID_BOUNDARY

is_kernel_idx(i) == i >= KERNEL_APPID_BOUNDARY

idx(self) == self.idx

\* &[Option<Process>]: a zero-based table, modelled as a function on 0..len-1
TableLen(procs) == Cardinality(DOMAIN procs)

\* mutant: the bounds are read from the first slot, not from slot idx
get_editable_flash_range_first(self, procs) ==
    IF self.idx >= TableLen(procs)
    THEN <<0, 0>>
    ELSE IF procs[0] = None
         THEN <<0, 0>>
         ELSE LET p == Unwrap(procs[0])
              IN  <<p.flash_non_protected_start, p.flash_end>>

get_editable_flash_range(self, procs) ==
    IF self.idx >= TableLen(procs)
    THEN <<0, 0>>
    ELSE IF procs[self.idx] = None
         THEN <<0, 0>>
         ELSE LET p == Unwrap(procs[self.idx])
              IN  <<p.flash_non_protected_start, p.flash_end>>

\* --------------------------------------------------------------- Callback
Raw(ptr)   == [kind |-> "Raw", ptr |-> ptr]
Rust(func) == [kind |-> "Rust", func |-> func]

Callback_new(appid, appdata, fn_ptr) ==
    [app_id |-> appid, appdata |-> appdata, fn_ptr |-> Raw(fn_ptr)]

\* mutant: the identity's index is stored as the context datum
Callback_kernel_new_idx(appid, fn_ptr) ==
    [app_id |-> appid, appdata |-> appid.idx, fn_ptr |-> Rust(fn_ptr)]

Callback_kernel_new(appid, fn_ptr) ==
    [app_id |-> appid, appdata |-> 0, fn_ptr |-> Rust(fn_ptr)]

\* mutant: the context datum is left out of the FunctionCall
FunctionCall_no_appdata(self, r0, r1, r2, ptr) ==
    [r0 |-> r0, r1 |-> r1, r2 |-> r2, r3 |-> 0, pc |-> ptr]

\* process::FunctionCall built at callback.rs:144-150; as_ptr() as usize is
\* the pointer's address
FunctionCall(self, r0, r1, r2, ptr) ==
    [r0 |-> r0, r1 |-> r1, r2 |-> r2, r3 |-> self.appdata, pc |-> ptr]

\* Process::schedule(FunctionCall) -> bool: queue or reject.  A faulted
\* process and a full queue reject; otherwise the call joins the tail.
Process_schedule(p, fc) ==
    IF p.state = "Fault" \/ Len(p.tasks) >= QueueCap
    THEN [ret |-> FALSE, p |-> p]
    ELSE [ret |-> TRUE, p |-> [p EXCEPT !.tasks = Append(@, fc)]]

\* What one call of Callback::schedule(&mut self, ...) does: the Callback
\* afterwards, whether it panics, what it returns, the table afterwards, the
\* typed-function invocations made (invoked) and the calls made to a
\* process's schedule (forwards).
Outcome(self, panic, ret, procs, invoked, forwards) ==
    [self |-> self, panic |-> panic, ret |-> ret, procs |-> procs,
     invoked |-> invoked, forwards |-> forwards]

\* mutant: the typed function is reported as run but never called
KernelBranch_no_call(self, r0, r1, r2, procs) ==
    IF self.fn_ptr.kind = "Raw"
    THEN Outcome(self, TRUE, FALSE, procs, <<>>, <<>>)
    ELSE Outcome(self, FALSE, TRUE, procs, <<>>, <<>>)

\* callback.rs:108-115
KernelBranch(self, r0, r1, r2, procs) ==
    IF self.fn_ptr.kind = "Raw"
    THEN Outcome(self, TRUE, FALSE, procs, <<>>, <<>>)
    ELSE Outcome(self, FALSE, TRUE, procs,
                 << <<self.fn_ptr.func, r0, r1, r2, self.appdata>> >>, <<>>)

\* Mutants of the process branch, one per bug:
\*   "oob_true"    an index past the table is reported as delivered
\*   "empty_true"  an empty slot is reported as delivered (occupancy cached)
\*   "check_late"  the payload kind is checked only after slot lookup
\*   "twice"       the FunctionCall is handed to the process twice
\*   "dispatch"    the FunctionCall is installed and the process resumed
\*   "install"     the FunctionCall is written into the saved frame at once
\*   "wrong_slot"  the FunctionCall goes to slot 0 whatever the index
\*   "ret_false"   the FunctionCall is enqueued but false is returned
\*   "no_forward"  an occupied slot is treated like an empty one
\*   "one_shot"    the context datum is cleared once the call is forwarded
ProcessBranchBug(bug, self, r0, r1, r2, procs) ==
    LET i == idx(self.app_id)
    IN  IF self.fn_ptr.kind = "Rust" /\ bug # "check_late"
        THEN Outcome(self, TRUE, FALSE, procs, <<>>, <<>>)
        ELSE IF i >= TableLen(procs)
        THEN Outcome(self, FALSE, bug = "oob_true", procs, <<>>, <<>>)
        ELSE IF procs[i] = None
        THEN Outcome(self, FALSE, bug = "empty_true", procs, <<>>, <<>>)
        ELSE IF self.fn_ptr.kind = "Rust"
        THEN Outcome(self, TRUE, FALSE, procs, <<>>, <<>>)
        ELSE LET fc == FunctionCall(self, r0, r1, r2, self.fn_ptr.ptr)
                 r  == Process_schedule(Unwrap(procs[i]), fc)
                 r2nd == Process_schedule(r.p, fc)
                 fwd == [slot |-> i, fc |-> fc, ret |-> r.ret]
             IN  IF bug = "twice"
                 THEN Outcome(self, FALSE, r.ret,
                              [procs EXCEPT ![i] = Some(r2nd.p)], <<>>, <<fwd>>)
                 ELSE IF bug = "dispatch"
                 THEN Outcome(self, FALSE, TRUE,
                              [procs EXCEPT ![i] = Some([Unwrap(procs[i]) EXCEPT
                                  !.frame = Some(fc), !.state = "Running"])],
                              <<>>, <<fwd>>)
                 ELSE IF bug = "install"
                 THEN Outcome(self, FALSE, TRUE,
                              [procs EXCEPT ![i] = Some([Unwrap(procs[i]) EXCEPT
                                  !.frame = Some(fc)])],
                              <<>>, <<fwd>>)
                 ELSE IF bug = "wrong_slot" /\ procs[0] # None
                 THEN LET r0th == Process_schedule(Unwrap(procs[0]), fc)
                      IN  Outcome(self, FALSE, r0th.ret,
                                  [procs EXCEPT ![0] = Some(r0th.p)], <<>>,
                                  << [slot |-> 0, fc |-> fc, ret |-> r0th.ret] >>)
                 ELSE IF bug = "ret_false"
                 THEN Outcome(self, FALSE, FALSE,
                              [procs EXCEPT ![i] = Some(r.p)], <<>>, <<fwd>>)
                 ELSE IF bug = "no_forward"
                 THEN Outcome(self, FALSE, FALSE, procs, <<>>, <<>>)
                 ELSE IF bug = "one_shot"
                 THEN Outcome([self EXCEPT !.appdata = 0], FALSE, r.ret,
                              [procs EXCEPT ![i] = Some(r.p)], <<>>, <<fwd>>)
                 ELSE Outcome(self, FALSE, r.ret,
                              [procs EXCEPT ![i] = Some(r.p)], <<>>, <<fwd>>)

ProcessBranch_oob_true(self, r0, r1, r2, procs) ==
    ProcessBranchBug("oob_true", self, r0, r1, r2, procs)

ProcessBranch_empty_true(self, r0, r1, r2, procs) ==
    ProcessBranchBug("empty_true", self, r0, r1, r2, procs)

ProcessBranch_check_late(self, r0, r1, r2, procs) ==
    ProcessBranchBug("check_late", self, r0, r1, r2, procs)

ProcessBranch_twice(self, r0, r1, r2, procs) ==
    ProcessBranchBug("twice", self, r0, r1, r2, procs)

ProcessBranch_dispatch(self, r0, r1, r2, procs) ==
    ProcessBranchBug("dispatch", self, r0, r1, r2, procs)

ProcessBranch_install(self, r0, r1, r2, procs) ==
    ProcessBranchBug("install", self, r0, r1, r2, procs)

ProcessBranch_wrong_slot(self, r0, r1, r2, procs) ==
    ProcessBranchBug("wrong_slot", self, r0, r1, r2, procs)

ProcessBranch_ret_false(self, r0, r1, r2, procs) ==
    ProcessBranchBug("ret_false", self, r0, r1, r2, procs)

ProcessBranch_no_forward(self, r0, r1, r2, procs) ==
    ProcessBranchBug("no_forward", self, r0, r1, r2, procs)

ProcessBranch_one_shot(self, r0, r1, r2, procs) ==
    ProcessBranchBug("one_shot", self, r0, r1, r2, procs)

\* callback.rs:117-184
ProcessBranch(self, r0, r1, r2, procs) ==
    IF self.fn_ptr.kind = "Rust"
    THEN Outcome(self, TRUE, FALSE, procs, <<>>, <<>>)
    ELSE LET i == idx(self.app_id)
         IN  IF i >= TableLen(procs)
             THEN Outcome(self, FALSE, FALSE, procs, <<>>, <<>>)
             ELSE IF procs[i] = None
                  THEN Outcome(self, FALSE, FALSE, procs, <<>>, <<>>)
                  ELSE LET fc == FunctionCall(self, r0, r1, r2, self.fn_ptr.ptr)
                           r  == Process_schedule(Unwrap(procs[i]), fc)
                       IN  Outcome(self, FALSE, r.ret,
                                   [procs EXCEPT ![i] = Some(r.p)], <<>>,
                                   << [slot |-> i, fc |-> fc, ret |-> r.ret] >>)

Callback_schedule(self, r0, r1, r2, procs) ==
    IF is_kernel(self.app_id)
    THEN KernelBranch(self, r0, r1, r2, procs)
    ELSE ProcessBranch(self, r0, r1, r2, procs)

\* ---------------------------------------------------------------- syscall
\* mutant: MEMOP is numbered 5, leaving 4 unassigned
Syscall_memop5 ==
    [YIELD |-> 0, SUBSCRIBE |-> 1, COMMAND |-> 2, ALLOW |-> 3, MEMOP |-> 5]

\* syscall.rs:5-21: enum Syscall, each member with its number
Syscall ==
    [YIELD |-> 0, SUBSCRIBE |-> 1, COMMAND |-> 2, ALLOW |-> 3, MEMOP |-> 4]

\* SyscallInterface::get_syscall_number -> Option<Syscall>: the member whose
\* number is n, None when no member has that number
get_syscall_number(n) ==
    LET ms == {m \in DOMAIN Syscall : Syscall[m] = n}
    IN  IF ms = {} THEN None ELSE Some(CHOOSE m \in ms : TRUE)

\* ------------------------------------------------------------------ state
VARIABLES
    processes,   \* kernel.processes: slot index -> Option<Process>
    callback,    \* the Callback a driver holds (None before construction)
    halted,      \* TRUE once a panic! has stopped the kernel
    last,        \* the most recent call into this layer and what it did
    nsched,      \* number of Callback::schedule calls made so far
    stale,       \* the Callback's slot was emptied after its construction
    accepted,    \* per slot: events whose schedule returned true, in order
    observed     \* per slot: FunctionCalls its process code has begun running

vars == <<processes, callback, halted, last, nsched, stale,
          accepted, observed>>

Slots == DOMAIN processes

\* (r0, r1, r2) a driver reports for its next event: r0 numbers the event
Events == {<<nsched + 1, 20, 30>>}

NoCall == [op |-> "none"]

\* flash bounds of the process loaded into slot s: disjoint regions above 0
flash_non_protected_start(s) == 16 * (s + 1) + 4
flash_end(s) == 16 * (s + 2)

NewProcess(s) ==
    [state |-> "Unstarted", tasks |-> <<>>, frame |-> None,
     flash_non_protected_start |-> flash_non_protected_start(s),
     flash_end |-> flash_end(s)]

Init ==
    /\ \E n \in 0..MaxProcs : processes = [i \in 0..(n - 1) |-> None]
    /\ callback = None
    /\ halted = FALSE
    /\ last = NoCall
    /\ nsched = 0
    /\ stale = FALSE
    /\ accepted = [i \in 0..(MaxProcs - 1) |-> <<>>]
    /\ observed = [i \in 0..(MaxProcs - 1) |-> <<>>]

\* ---------------------------------------------------------------- actions
StateOf(s) == Unwrap(processes[s]).state

\* the kernel, not a process, holds the CPU: capsules, the loader and the
\* scheduler run only then
NoneRunning ==
    \A s \in Slots : IF processes[s] = None THEN TRUE ELSE StateOf(s) # "Running"

\* SUBSCRIBE path: the kernel builds a Callback for a driver to hold
NewCallback(i, d, p) ==
    /\ ~halted
    /\ NoneRunning
    /\ callback' = Some(Callback_new(AppId_new(i), d, p))
    /\ stale' = FALSE
    /\ last' = NoCall
    /\ UNCHANGED <<processes, halted, nsched, accepted, observed>>

NewKernelCallback(i, f) ==
    /\ ~halted
    /\ NoneRunning
    /\ callback' = Some(Callback_kernel_new(AppId_kernel_new(i), f))
    /\ stale' = FALSE
    /\ last' = NoCall
    /\ UNCHANGED <<processes, halted, nsched, accepted, observed>>

\* a driver calls Callback::schedule on the Callback it holds
Schedule(r0, r1, r2) ==
    /\ ~halted
    /\ NoneRunning
    /\ nsched < MaxCalls
    /\ callback # None
    /\ LET self == Unwrap(callback)
           out  == Callback_schedule(self, r0, r1, r2, processes)
           i    == self.app_id.idx
       IN  /\ processes' = out.procs
           /\ callback' = Some(out.self)
           /\ halted' = out.panic
           /\ last' = [op |-> "schedule", self |-> self,
                       r |-> <<r0, r1, r2>>, pre |-> processes,
                       panic |-> out.panic, ret |-> out.ret,
                       invoked |-> out.invoked, forwards |-> out.forwards]
           /\ accepted' = IF ~out.panic /\ out.ret /\ i \in DOMAIN accepted
                          THEN [accepted EXCEPT ![i] =
                                   Append(@, [self |-> self, r |-> <<r0, r1, r2>>])]
                          ELSE accepted
    /\ nsched' = nsched + 1
    /\ UNCHANGED <<stale, observed>>

\* a kernel subsystem asks for the flash range an identity may write
FlashRange(i) ==
    /\ ~halted
    /\ NoneRunning
    /\ last' = [op |-> "flash", appid |-> AppId_new(i), pre |-> processes,
                range |-> get_editable_flash_range(AppId_new(i), processes)]
    /\ UNCHANGED <<processes, callback, halted, nsched, stale,
                   accepted, observed>>

\* the kernel builds an identity and queries it
Identify(ctor, i) ==
    /\ ~halted
    /\ LET appid == IF ctor = "new" THEN AppId_new(i) ELSE AppId_kernel_new(i)
       IN  last' = [op |-> "appid", ctor |-> ctor, input |-> i,
                    is_kernel |-> is_kernel(appid),
                    is_kernel_idx |-> is_kernel_idx(i), idx |-> idx(appid)]
    /\ UNCHANGED <<processes, callback, halted, nsched, stale,
                   accepted, observed>>

\* a process is admitted to an empty slot
LoadProcess(s) ==
    /\ ~halted
    /\ NoneRunning
    /\ s \in Slots
    /\ processes[s] = None
    /\ processes' = [processes EXCEPT ![s] = Some(NewProcess(s))]
    /\ accepted' = [accepted EXCEPT ![s] = <<>>]
    /\ observed' = [observed EXCEPT ![s] = <<>>]
    /\ last' = NoCall
    /\ UNCHANGED <<callback, halted, nsched, stale>>

\* a process leaves the table: its slot becomes empty
RemoveProcess(s) ==
    /\ ~halted
    /\ NoneRunning
    /\ s \in Slots
    /\ processes[s] # None
    /\ processes' = [processes EXCEPT ![s] = None]
    /\ stale' = IF callback = None THEN stale
                ELSE IF Unwrap(callback).app_id.idx = s THEN TRUE ELSE stale
    /\ accepted' = [accepted EXCEPT ![s] = <<>>]
    /\ observed' = [observed EXCEPT ![s] = <<>>]
    /\ last' = NoCall
    /\ UNCHANGED <<callback, halted, nsched>>

SetProc(s, p) == [processes EXCEPT ![s] = Some(p)]

\* SyscallInterface::switch_to_process: the process runs; a function call
\* the kernel placed in its frame is what it executes first
switch_to_process(p) == [p EXCEPT !.state = "Running", !.frame = None]

\* SyscallInterface::replace_function_call: the saved frame is overwritten
replace_function_call(p, fc) == [p EXCEPT !.frame = Some(fc)]

SwitchToProcess(s) ==
    /\ ~halted
    /\ NoneRunning
    /\ s \in Slots
    /\ processes[s] # None
    /\ StateOf(s) \in {"Unstarted", "Suspended"}
    /\ LET p == Unwrap(processes[s])
       IN  /\ processes' = SetProc(s, switch_to_process(p))
           /\ observed' = IF p.frame # None
                          THEN [observed EXCEPT ![s] = Append(@, Unwrap(p.frame))]
                          ELSE observed
    /\ last' = NoCall
    /\ UNCHANGED <<callback, halted, nsched, stale, accepted>>

\* the running process traps into the kernel (syscall or interrupt)
Trap(s) ==
    /\ ~halted
    /\ s \in Slots
    /\ processes[s] # None
    /\ StateOf(s) = "Running"
    /\ processes' = SetProc(s, [Unwrap(processes[s]) EXCEPT !.state = "Suspended"])
    /\ last' = NoCall
    /\ UNCHANGED <<callback, halted, nsched, stale, accepted, observed>>

\* the running process faults
Fault(s) ==
    /\ ~halted
    /\ s \in Slots
    /\ processes[s] # None
    /\ StateOf(s) = "Running"
    /\ processes' = SetProc(s, [Unwrap(processes[s]) EXCEPT !.state = "Fault"])
    /\ last' = NoCall
    /\ UNCHANGED <<callback, halted, nsched, stale, accepted, observed>>

\* the scheduler takes the oldest queued FunctionCall of a suspended process
\* and installs it with replace_function_call
Deliver(s) ==
    /\ ~halted
    /\ NoneRunning
    /\ s \in Slots
    /\ processes[s] # None
    /\ StateOf(s) = "Suspended"
    /\ LET p == Unwrap(processes[s])
       IN  /\ p.frame = None
           /\ p.tasks # <<>>
           /\ processes' = SetProc(s, replace_function_call(
                               [p EXCEPT !.tasks = Tail(@)], Head(p.tasks)))
    /\ last' = NoCall
    /\ UNCHANGED <<callback, halted, nsched, stale, accepted, observed>>

\* the kernel decodes the syscall number a trapped process left in its frame
GetSyscallNumber(s, n) ==
    /\ ~halted
    /\ NoneRunning
    /\ s \in Slots
    /\ processes[s] # None
    /\ StateOf(s) = "Suspended"
    /\ last' = [op |-> "syscall", slot |-> s, number |-> n,
                ret |-> get_syscall_number(n)]
    /\ UNCHANGED <<processes, callback, halted, nsched, stale,
                   accepted, observed>>

Next ==
    \/ \E i \in Idxs, d \in Datas, p \in Ptrs : NewCallback(i, d, p)
    \/ \E i \in KIdxs, f \in Funcs : NewKernelCallback(i, f)
    \/ \E r \in Events : Schedule(r[1], r[2], r[3])
    \/ \E s \in 0..(MaxProcs - 1) : LoadProcess(s)
    \/ \E s \in 0..(MaxProcs - 1) : RemoveProcess(s)
    \/ \E s \in 0..(MaxProcs - 1) : SwitchToProcess(s)
    \/ \E s \in 0..(MaxProcs - 1) : Trap(s)
    \/ \E s \in 0..(MaxProcs - 1) : Fault(s)
    \/ \E s \in 0..(MaxProcs - 1) : Deliver(s)

Spec == Init /\ [][Next]_vars

\* indices the identity operations are tried on: every slot, one past the
\* table, and both sides of the kernel boundary
IdIdxs == (0..MaxProcs) \cup
          {KERNEL_APPID_BOUNDARY - 1, KERNEL_APPID_BOUNDARY, KERNEL_APPID_BOUNDARY + 1}

\* the identity and syscall queries over a changing table, without dispatch
NextAppId ==
    \/ \E i \in IdIdxs : FlashRange(i)
    \/ \E c \in {"new", "kernel_new"}, i \in IdIdxs : Identify(c, i)
    \/ \E s \in 0..(MaxProcs - 1), n \in 0..MaxSyscallNo : GetSyscallNumber(s, n)
    \/ \E s \in 0..(MaxProcs - 1) : LoadProcess(s)
    \/ \E s \in 0..(MaxProcs - 1) : RemoveProcess(s)
    \/ \E s \in 0..(MaxProcs - 1) : SwitchToProcess(s)
    \/ \E s \in 0..(MaxProcs - 1) : Trap(s)
    \/ \E s \in 0..(MaxProcs - 1) : Fault(s)

SpecAppId == Init /\ [][NextAppId]_vars

\* a board whose process table has a slot at the kernel boundary: 101 slots,
\* of which the first and the two around the boundary are ever loaded
BoardLen == KERNEL_APPID_BOUNDARY + 1

BoardSlots == {0, KERNEL_APPID_BOUNDARY - 1, KERNEL_APPID_BOUNDARY}

BoardIdxs == BoardSlots \cup {KERNEL_APPID_BOUNDARY + 1}

InitBoard ==
    /\ processes = [i \in 0..(BoardLen - 1) |-> None]
    /\ callback = None
    /\ halted = FALSE
    /\ last = NoCall
    /\ nsched = 0
    /\ stale = FALSE
    /\ accepted = [i \in 0..(BoardLen - 1) |-> <<>>]
    /\ observed = [i \in 0..(BoardLen - 1) |-> <<>>]

NextBoard ==
    \/ \E i \in BoardIdxs : FlashRange(i)
    \/ \E s \in BoardSlots : LoadProcess(s)
    \/ \E s \in BoardSlots : RemoveProcess(s)
    \/ \E s \in BoardSlots : SwitchToProcess(s)
    \/ \E s \in BoardSlots : Trap(s)
    \/ \E s \in BoardSlots : Fault(s)

SpecBoard == InitBoard /\ [][NextBoard]_vars

\* ----------------------------------------------------------------- claims
Scheduled == last.op = "schedule"

ProcessIdentity(cb) == cb.app_id.idx < 100
KernelIdentity(cb)  == cb.app_id.idx >= 100
RawPayload(cb)      == cb.fn_ptr.kind = "Raw"
TypedPayload(cb)    == cb.fn_ptr.kind = "Rust"

\* slot i of procs holds a process
Occupied(procs, i) ==
    IF i \in DOMAIN procs THEN procs[i] # None ELSE FALSE

\* the FunctionCall the claims expect for an event (r0, r1, r2) on cb
ExpectedCall(cb, r) ==
    [r0 |-> r[1], r1 |-> r[2], r2 |-> r[3], r3 |-> cb.appdata,
     pc |-> cb.fn_ptr.ptr]

\* C1: schedule on a Callback with a process identity and a raw payload whose
\* index is past the table or names an empty slot returns false (no panic),
\* calls no process's schedule, invokes nothing, and leaves the table and
\* the Callback as they were.
C1_AbsentTargetReturnsFalse ==
    (Scheduled /\ ProcessIdentity(last.self) /\ RawPayload(last.self)
        /\ ~Occupied(last.pre, last.self.app_id.idx))
    => /\ ~last.panic
       /\ ~halted
       /\ last.ret = FALSE
       /\ last.forwards = <<>>
       /\ last.invoked = <<>>
       /\ processes = last.pre
       /\ callback = Some(last.self)

\* C1 witness: slot 0 is occupied, the Callback names index 1 past a table of
\* length 1, and schedule has returned false.
C1_Witness ==
    /\ Scheduled
    /\ RawPayload(last.self)
    /\ last.self.app_id.idx = 1
    /\ DOMAIN last.pre = {0}
    /\ Occupied(last.pre, 0)
    /\ last.ret = FALSE
    /\ ~last.panic

\* C2: schedule on a Callback with a process identity and a raw payload whose
\* slot is occupied calls that slot's schedule exactly once, with
\* FunctionCall {r0, r1, r2, r3 = appdata, pc = pointer address}, returns the
\* boolean that call returned, and the slot holds what that call left.
C2_ForwardsOneFunctionCall ==
    (Scheduled /\ ProcessIdentity(last.self) /\ RawPayload(last.self)
        /\ Occupied(last.pre, last.self.app_id.idx))
    => LET i   == last.self.app_id.idx
           fc  == ExpectedCall(last.self, last.r)
           res == Process_schedule(Unwrap(last.pre[i]), fc)
       IN  /\ ~last.panic
           /\ last.forwards = << [slot |-> i, fc |-> fc, ret |-> res.ret] >>
           /\ last.ret = res.ret
           /\ last.invoked = <<>>
           /\ processes = [last.pre EXCEPT ![i] = Some(res.p)]

\* C2 witness: a FunctionCall with r3 = 7 and pc = 64 was forwarded to slot 1
\* and accepted.
C2_Witness ==
    /\ Scheduled
    /\ Len(last.forwards) = 1
    /\ last.forwards[1].slot = 1
    /\ last.forwards[1].fc.r3 = 7
    /\ last.forwards[1].fc.pc = 64
    /\ last.ret = TRUE

\* C3: schedule on a Callback with a kernel identity and a typed function F
\* invokes F exactly once with (r0, r1, r2, appdata), returns true, forwards
\* nothing and leaves the table as it was, whatever the table holds.
C3_KernelCallRunsNow ==
    (Scheduled /\ KernelIdentity(last.self) /\ TypedPayload(last.self))
    => /\ ~last.panic
       /\ last.ret = TRUE
       /\ last.invoked = << <<last.self.fn_ptr.func, last.r[1], last.r[2],
                              last.r[3], last.self.appdata>> >>
       /\ last.forwards = <<>>
       /\ processes = last.pre

\* C3 witness: the typed function ran while the table held a process with a
\* queued FunctionCall.
C3_Witness ==
    /\ Scheduled
    /\ KernelIdentity(last.self)
    /\ Len(last.invoked) = 1
    /\ \E s \in DOMAIN processes :
          IF processes[s] = None THEN FALSE
          ELSE Unwrap(processes[s]).tasks # <<>>

\* C4: schedule on a Callback whose payload kind does not match its identity
\* kind panics before anything happens: nothing is invoked, nothing is
\* forwarded, the table is as it was; it never returns (so never false),
\* whether the slot is in bounds, occupied or not.
C4_MismatchPanicsFirst ==
    (Scheduled /\ ((KernelIdentity(last.self) /\ RawPayload(last.self))
                   \/ (ProcessIdentity(last.self) /\ TypedPayload(last.self))))
    => /\ last.panic
       /\ halted
       /\ last.invoked = <<>>
       /\ last.forwards = <<>>
       /\ processes = last.pre

\* C4 witness: a typed function under a process identity whose slot is
\* occupied, and the kernel has halted.
C4_Witness ==
    /\ Scheduled
    /\ ProcessIdentity(last.self)
    /\ TypedPayload(last.self)
    /\ Occupied(last.pre, last.self.app_id.idx)
    /\ halted

\* the pairing invariant of a Callback
Paired(cb) == KernelIdentity(cb) <=> TypedPayload(cb)

\* C5 as stated: every Callback the constructors build satisfies the pairing
\* invariant (kernel identity iff typed payload).
C5_PairingInvariant ==
    callback # None => Paired(Unwrap(callback))

\* C5 amended: Callback::new always yields the raw payload and
\* Callback::kernel_new the typed payload with context datum 0, each keeping
\* the identity it is given; the result is paired exactly when new was given
\* a process identity and kernel_new a kernel identity, and schedule reaches
\* the fatal branch exactly on the Callbacks that are not paired.
C5_ConstructorsDoNotCheck ==
    /\ \A i \in Idxs, d \in Datas, p \in Ptrs :
          LET cb == Callback_new(AppId_new(i), d, p)
          IN  /\ RawPayload(cb) /\ cb.app_id.idx = i /\ cb.appdata = d
              /\ (Paired(cb) <=> i < 100)
    /\ \A i \in KIdxs, f \in Funcs :
          LET cb == Callback_kernel_new(AppId_kernel_new(i), f)
          IN  /\ TypedPayload(cb) /\ cb.app_id.idx = i /\ cb.appdata = 0
              /\ (Paired(cb) <=> i >= 100)
    /\ callback # None =>
          \/ \E i \in Idxs, d \in Datas, p \in Ptrs :
                Unwrap(callback) = Callback_new(AppId_new(i), d, p)
          \/ \E i \in KIdxs, f \in Funcs :
                Unwrap(callback) = Callback_kernel_new(AppId_kernel_new(i), f)
    /\ Scheduled => (last.panic <=> ~Paired(last.self))

\* C5 witness: Callback::new was given the kernel identity 100, and schedule
\* on the Callback it built has panicked.
C5_Witness ==
    /\ Scheduled
    /\ callback = Some(Callback_new(AppId_new(100), 7, 64))
    /\ last.panic

\* C6: once the slot a process-bound Callback names has been emptied after
\* the Callback was built, every schedule on it while the slot is empty
\* returns false and enqueues nothing: no process's schedule is called and
\* every slot, with its queue, is as it was.
C6_EmptiedSlotReturnsFalse ==
    (Scheduled /\ stale /\ ProcessIdentity(last.self) /\ RawPayload(last.self)
        /\ ~Occupied(last.pre, last.self.app_id.idx))
    => /\ ~last.panic
       /\ last.ret = FALSE
       /\ last.forwards = <<>>
       /\ \A s \in DOMAIN processes : processes[s] = last.pre[s]
       /\ accepted[last.self.app_id.idx] = <<>>

\* C6 witness: the Callback's slot was emptied after its construction, and a
\* second or later schedule on it has returned false while another process
\* still holds a queued FunctionCall.
C6_Witness ==
    /\ Scheduled
    /\ stale
    /\ RawPayload(last.self)
    /\ last.self.app_id.idx \in DOMAIN last.pre
    /\ ~Occupied(last.pre, last.self.app_id.idx)
    /\ last.ret = FALSE
    /\ nsched >= 2
    /\ \E s \in DOMAIN processes :
          IF processes[s] = None THEN FALSE
          ELSE Unwrap(processes[s]).tasks # <<>>

\* the FunctionCalls delivered into the process of slot s so far: those its
\* code has begun running, then the one replace_function_call installed
Delivered(s) ==
    IF Occupied(processes, s)
    THEN observed[s] \o Unwrap(processes[s]).frame
    ELSE observed[s]

\* C7: for each process, the FunctionCalls delivered into it are, in order,
\* the first of the events whose schedule returned true for it (FIFO).
C7_DeliveredInEnqueueOrder ==
    \A s \in DOMAIN processes :
        /\ Len(Delivered(s)) <= Len(accepted[s])
        /\ \A k \in 1..Len(Delivered(s)) :
              Delivered(s)[k] = ExpectedCall(accepted[s][k].self, accepted[s][k].r)

\* C7 witness: events 1 and 3 were accepted for one process and both
\* delivered, event 2 was accepted for the other process in between.
C7_Witness ==
    \E s \in DOMAIN processes, t \in DOMAIN processes :
        /\ s # t
        /\ Len(observed[s]) = 2
        /\ observed[s][1].r0 = 1
        /\ observed[s][2].r0 = 3
        /\ Len(accepted[t]) = 1
        /\ accepted[t][1].r[1] = 2

\* C8: schedule on a process-bound Callback only enqueues: after the call no
\* process is running, every process is in the state and has the saved frame
\* it had before, and an accepted FunctionCall sits at the tail of the queue,
\* not yet delivered.
C8_ScheduleOnlyEnqueues ==
    (Scheduled /\ ~last.panic /\ ProcessIdentity(last.self))
    => /\ NoneRunning
       /\ \A s \in DOMAIN processes :
             /\ (processes[s] = None) <=> (last.pre[s] = None)
             /\ IF processes[s] = None THEN TRUE
                ELSE /\ Unwrap(processes[s]).state = Unwrap(last.pre[s]).state
                     /\ Unwrap(processes[s]).frame = Unwrap(last.pre[s]).frame
       /\ last.ret =>
             LET i == last.self.app_id.idx
                 q == Unwrap(processes[i]).tasks
             IN  /\ q # <<>>
                 /\ q[Len(q)] = ExpectedCall(last.self, last.r)
                 /\ Len(Delivered(i)) < Len(accepted[i])

\* C8 witness: a FunctionCall was accepted for a suspended process that has
\* an earlier one installed in its frame; it is queued, not delivered.
C8_Witness ==
    /\ Scheduled
    /\ last.ret
    /\ ProcessIdentity(last.self)
    /\ LET p == Unwrap(processes[last.self.app_id.idx])
       IN  /\ p.state = "Suspended"
           /\ p.frame # None
           /\ Len(p.tasks) = 1

\* C9: get_editable_flash_range returns (0, 0) for an index past the table or
\* an empty slot, otherwise (flash_non_protected_start, flash_end) of the
\* process in slot idx and of no other slot; the table is as it was.
C9_FlashRangeOfOwnSlot ==
    last.op = "flash"
    => LET i == last.appid.idx
       IN  /\ processes = last.pre
           /\ IF Occupied(processes, i)
              THEN /\ last.range = <<Unwrap(processes[i]).flash_non_protected_start,
                                     Unwrap(processes[i]).flash_end>>
                   /\ \A j \in DOMAIN processes :
                         (j # i /\ Occupied(processes, j)) =>
                            last.range # <<Unwrap(processes[j]).flash_non_protected_start,
                                           Unwrap(processes[j]).flash_end>>
              ELSE last.range = <<0, 0>>

\* C9 witness: slots 0 and 1 are both occupied and the range of slot 1 was
\* returned.
C9_Witness ==
    /\ last.op = "flash"
    /\ last.appid.idx = 1
    /\ Occupied(processes, 0)
    /\ Occupied(processes, 1)
    /\ last.range = <<flash_non_protected_start(1), flash_end(1)>>

\* C10: for every index i, is_kernel() on an identity built with i is true
\* iff i >= 100, is_kernel_idx(i) agrees, and idx() returns i, for both
\* constructors.
C10_IsKernelIffAtLeast100 ==
    last.op = "appid"
    => /\ last.is_kernel <=> (last.input >= 100)
       /\ last.is_kernel_idx <=> last.is_kernel
       /\ last.idx = last.input

\* C10 witness: AppId::kernel_new(100) was built and is_kernel() is true.
C10_Witness ==
    /\ last.op = "appid"
    /\ last.ctor = "kernel_new"
    /\ last.input = 100
    /\ last.is_kernel
    /\ last.is_kernel_idx

\* C11: replace_function_call is applied to a process only while it is
\* Suspended-in-kernel, never to one that is Running, Unstarted or Faulted
\* nor to a slot whose process has left, and a process becomes Running only
\* through switch_to_process, from Unstarted or Suspended. As a step
\* property: a step that puts a FunctionCall into a saved frame does so by
\* replace_function_call on a Suspended process, and a step that makes a process
\* Running is switch_to_process on it.
C11_ReplaceOnlyWhileSuspended ==
    [][\A s \in DOMAIN processes :
          IF processes'[s] = None THEN TRUE
          ELSE IF processes[s] = None
          THEN /\ Unwrap(processes'[s]).frame = None
               /\ Unwrap(processes'[s]).state = "Unstarted"
          ELSE LET before == Unwrap(processes[s])
                   after  == Unwrap(processes'[s])
               IN  /\ (after.frame # None /\ after.frame # before.frame)
                        => /\ before.state = "Suspended"
                           /\ after.state = "Suspended"
                           /\ after = replace_function_call(
                                         [before EXCEPT !.tasks = after.tasks],
                                         Unwrap(after.frame))
                   /\ (after.state = "Running" /\ before.state # "Running")
                        => /\ before.state \in {"Unstarted", "Suspended"}
                           /\ after = switch_to_process(before)
      ]_vars

\* C11 witness: replace_function_call has installed a FunctionCall in a
\* Suspended process while another process, Faulted, still has a queued
\* FunctionCall that was never installed.
C11_Witness ==
    \E s \in DOMAIN processes, t \in DOMAIN processes :
        /\ Occupied(processes, s)
        /\ Occupied(processes, t)
        /\ Unwrap(processes[s]).state = "Suspended"
        /\ Unwrap(processes[s]).frame # None
        /\ Unwrap(processes[t]).state = "Fault"
        /\ Unwrap(processes[t]).frame = None
        /\ Unwrap(processes[t]).tasks # <<>>

\* C12: Syscall has exactly five members, numbered YIELD=0, SUBSCRIBE=1,
\* COMMAND=2, ALLOW=3, MEMOP=4; get_syscall_number yields the member with
\* the number presented when it is one of 0..4 and None for every other
\* number, never a value outside the five members.
C12_DecodeFiveOrNone ==
    /\ Cardinality(DOMAIN Syscall) = 5
    /\ last.op = "syscall"
       => /\ last.number = 0 => last.ret = Some("YIELD")
          /\ last.number = 1 => last.ret = Some("SUBSCRIBE")
          /\ last.number = 2 => last.ret = Some("COMMAND")
          /\ last.number = 3 => last.ret = Some("ALLOW")
          /\ last.number = 4 => last.ret = Some("MEMOP")
          /\ last.number \notin 0..4 => last.ret = None
          /\ last.ret # None => Unwrap(last.ret) \in DOMAIN Syscall

\* C12 witness: a trapped process presented the number 5, one past MEMOP,
\* and the decoder answered None.
C12_Witness ==
    /\ last.op = "syscall"
    /\ last.number = 5
    /\ last.ret = None

C14_OtherSlotsUntouched ==
    Scheduled
    => /\ DOMAIN processes = DOMAIN last.pre
       /\ \A j \in DOMAIN last.pre :
             j # last.self.app_id.idx => processes[j] = last.pre[j]

\* C14 witness: a table of 2 slots, slot 0 occupied with a pending
\* FunctionCall, slot 1 empty, Callback bound to 1: schedule returned false.
C14_Witness ==
    /\ Scheduled
    /\ RawPayload(last.self)
    /\ last.self.app_id.idx = 1
    /\ DOMAIN last.pre = {0, 1}
    /\ Occupied(last.pre, 0)
    /\ ~Occupied(last.pre, 1)
    /\ Unwrap(processes[0]).tasks # <<>>
    /\ last.ret = FALSE
    /\ ~last.panic

\* every FunctionCall the process of slot s has received and not discarded:
\* those delivered, then those still queued
Received(s) ==
    IF Occupied(processes, s)
    THEN Delivered(s) \o Unwrap(processes[s]).tasks
    ELSE Delivered(s)

\* C15: no retry: one schedule call makes at most one call to the target
\* process's schedule; a call that returns false leaves the table as it was,
\* and at every later time the FunctionCalls a process has received are
\* exactly those of the events whose schedule returned true for it, so an
\* event whose schedule returned false is never delivered or queued later.
C15_DroppedEventIsLost ==
    /\ Scheduled
       => /\ Len(last.forwards) <= 1
          /\ (~last.panic /\ ~last.ret) => processes = last.pre
    /\ \A s \in DOMAIN processes :
          LET rcv == Received(s)
          IN  /\ Len(rcv) = Len(accepted[s])
              /\ \A k \in 1..Len(rcv) :
                    rcv[k] = ExpectedCall(accepted[s][k].self, accepted[s][k].r)

\* C15 witness: a process ran an earlier FunctionCall and then faulted; the
\* next schedule was forwarded to it once, rejected, and returned false.
C15_Witness ==
    /\ Scheduled
    /\ ~last.panic
    /\ last.ret = FALSE
    /\ Len(last.forwards) = 1
    /\ Len(observed[last.self.app_id.idx]) >= 1
    /\ Unwrap(processes[last.self.app_id.idx]).state = "Fault"
    /\ Unwrap(processes[last.self.app_id.idx]).tasks = <<>>

\* C16: a Callback built with Callback::kernel_new has context datum 0 in
\* every state, before and after any number of schedule calls and table
\* changes, and every schedule on it that calls the typed function passes 0
\* as the fourth argument.
C16_KernelDatumIsZero ==
    /\ callback # None =>
          (TypedPayload(Unwrap(callback)) => Unwrap(callback).appdata = 0)
    /\ (Scheduled /\ TypedPayload(last.self))
       => /\ last.self.appdata = 0
          /\ callback = Some(last.self)
          /\ \A k \in 1..Len(last.invoked) : last.invoked[k][5] = 0
          /\ KernelIdentity(last.self) => Len(last.invoked) = 1

\* C16 witness: kernel identity 100, function F: the third schedule on the
\* same Callback called F(3, 20, 30, 0).
C16_Witness ==
    /\ Scheduled
    /\ last.self = Callback_kernel_new(AppId_kernel_new(100), "F")
    /\ last.r[1] = 3
    /\ last.invoked = << <<"F", 3, 20, 30, 0>> >>
    /\ last.ret = TRUE

\* C17 as stated: a FunctionCall is only ever forwarded to the process that
\* occupied the slot when the Callback was constructed; in particular, once
\* that slot has been emptied after the construction (stale), whatever
\* occupies it now is another process and nothing is forwarded to it.
C17_OnlyToOriginalOccupant ==
    (Scheduled /\ last.forwards # <<>>) => ~stale

\* C17 amended: schedule forwards to whichever process occupies slot idx at
\* the time of the call. For a process identity with a raw payload a
\* FunctionCall is forwarded iff the slot is occupied then, to that slot,
\* carrying the Callback's pointer and context datum, and the result is the
\* occupant's; this is so also after the slot was emptied and loaded again.
C17_ForwardsToCurrentOccupant ==
    (Scheduled /\ ProcessIdentity(last.self) /\ RawPayload(last.self))
    => LET i == last.self.app_id.idx
       IN  /\ ~last.panic
           /\ (last.forwards # <<>>) <=> Occupied(last.pre, i)
           /\ (stale /\ Occupied(last.pre, i))
                 => /\ Len(last.forwards) = 1
                    /\ last.forwards[1].slot = i
                    /\ last.forwards[1].fc.r3 = last.self.appdata
                    /\ last.forwards[1].fc.pc = last.self.fn_ptr.ptr
                    /\ last.ret = Process_schedule(Unwrap(last.pre[i]),
                                                   last.forwards[1].fc).ret
                    /\ processes[i] = Some(Process_schedule(Unwrap(last.pre[i]),
                                                            last.forwards[1].fc).p)

\* C17 witness: the Callback's slot was emptied after its construction and
\* loaded again; schedule forwarded a FunctionCall with the old pointer and
\* context datum to the new, not yet started occupant, which accepted it.
C17_Witness ==
    /\ Scheduled
    /\ stale
    /\ Len(last.forwards) = 1
    /\ last.forwards[1].fc.r3 = 7
    /\ last.forwards[1].fc.pc = 64
    /\ last.ret = TRUE
    /\ Unwrap(last.pre[last.self.app_id.idx]).state = "Unstarted"
    /\ Len(accepted[last.self.app_id.idx]) = 1

\* C18: schedule never changes the Callback it is called on: after every
\* call that does not panic the Callback has the identity, context datum and
\* payload it had before. So a Callback is not one-shot: the FunctionCalls
\* a process received are as many as the accepted calls, the k-th carries
\* the context datum and pointer of the Callback of the k-th accepted call
\* (the same for all calls on one Callback), and consecutive ones differ in
\* r0, the later having the later event number.
C18_ScheduleKeepsCallback ==
    /\ (Scheduled /\ ~last.panic) => callback = Some(last.self)
    /\ \A s \in DOMAIN processes :
          LET rcv == Received(s)
              acc == accepted[s]
          IN  /\ Len(rcv) = Len(acc)
              /\ \A k \in 1..Len(acc) :
                    /\ rcv[k].r3 = acc[k].self.appdata
                    /\ rcv[k].pc = acc[k].self.fn_ptr.ptr
                    /\ k > 1 => rcv[k - 1].r0 < rcv[k].r0

\* C18 witness: one Callback was scheduled three times against a process
\* that accepted each time; the process received three FunctionCalls
\* numbered 1, 2, 3 and the Callback is what it was at the third call.
C18_Witness ==
    /\ Scheduled
    /\ nsched = 3
    /\ callback = Some(last.self)
    /\ \E s \in DOMAIN processes :
          /\ Len(accepted[s]) = 3
          /\ \A k \in 1..3 : accepted[s][k].self = last.self
          /\ Len(Received(s)) = 3
          /\ \A k \in 1..3 : Received(s)[k].r0 = k

====
